---------------------------- MODULE Spec2Model ----------------------------
(***************************************************************************)
(* Data-access layer of the event-management application:                  *)
(*   src/lib/mongodb.ts          the cached Mongoose connection            *)
(*   src/database/event.model.ts the Event and Booking schemas and their   *)
(*                               pre-save hooks                            *)
(* Strings are sequences of one-character strings, so that trimming,       *)
(* pattern matching and rewriting are computed character by character.     *)
(***************************************************************************)
EXTENDS Integers, Sequences, FiniteSets, TLC

VARIABLES
    cached,     \* src/lib/mongodb.ts: the global cache {conn, promise}
    attempts,   \* the mongoose.connect() calls made so far and their state
    callers,    \* the calls of connectToDatabase(), one record per caller
    tz,         \* the process time zone: local time is UTC + tz hours
    attrs,      \* the attributes the current Event document was built from
    doc,        \* the current Event document, in memory
    saveResult, \* how the last doc.save() ended
    events,     \* the `events` collection
    bookings,   \* the Booking documents and how far the save of each has come
    stored,     \* the `bookings` collection
    process,    \* process.env.MONGODB_URI and the evaluations of lib/mongodb.ts
    registry    \* mongoose.models and what the model modules export

connVars == <<cached, attempts, callers>>
eventVars == <<tz, attrs, doc, saveResult, events>>
bookingVars == <<bookings, stored>>
loadVars == <<process, registry>>
vars == <<cached, attempts, callers, tz, attrs, doc, saveResult, events, bookings, stored,
          process, registry>>

(***************************************************************************)
(*                  Connection cache: src/lib/mongodb.ts                   *)
(***************************************************************************)

\* Number of concurrent callers of connectToDatabase().
NCallers == 3
\* Number of calls each caller makes, one after the other.
MaxCalls == 2

Callers == 1..NCallers

\* `null`, for cached.conn and cached.promise.
Null == 0

\* The value the i-th mongoose.connect() promise resolves to.
Handle(i) == i

NoResult == [kind |-> "none", val |-> Null, attempt |-> Null, path |-> "none"]

\* cached = global.mongooseConn ?? {conn: null, promise: null}
InitCached == [conn |-> Null, promise |-> Null]

\* A slip that never takes the early return.
HasConn_Never == FALSE

\* Line 44: if (cached.conn)
HasConn == cached.conn # Null

\* A slip that looks at the handle where the pending promise is meant.
NeedsConnect_ChecksConn == cached.conn = Null

\* Line 49: if (!cached.promise)
NeedsConnect == cached.promise = Null

\* connectToDatabase(), which exists once lib/mongodb.ts has been evaluated
\* without throwing; from its entry to the first suspension: either the
\* early return of the cached handle (lines 44-46), or the start of a
\* connection attempt when none is stored (lines 49-59) followed by the
\* suspension on cached.promise (line 62).
CallConnect(c) ==
    /\ process.mongodb = "loaded"
    /\ callers[c].pc = "idle"
    /\ callers[c].calls < MaxCalls
    /\ IF HasConn
         THEN /\ callers' = [callers EXCEPT ![c] =
                    [@ EXCEPT !.calls = @ + 1,
                              !.last = [kind |-> "handle", val |-> cached.conn,
                                        attempt |-> Null, path |-> "cached"]]]
              /\ UNCHANGED <<cached, attempts, eventVars, bookingVars, loadVars>>
         ELSE IF NeedsConnect
                THEN /\ UNCHANGED <<eventVars, bookingVars, loadVars>>
                     /\ attempts' = Append(attempts, "pending")
                     /\ cached' = [cached EXCEPT !.promise = Len(attempts) + 1]
                     /\ callers' = [callers EXCEPT ![c] =
                           [@ EXCEPT !.pc = "awaiting", !.calls = @ + 1,
                                     !.awaited = Len(attempts) + 1]]
                ELSE /\ callers' = [callers EXCEPT ![c] =
                           [@ EXCEPT !.pc = "awaiting", !.calls = @ + 1,
                                     !.awaited = cached.promise]]
                     /\ UNCHANGED <<cached, attempts, eventVars, bookingVars, loadVars>>

\* mongoose.connect() of line 56 settles: the driver connected.
ConnectSucceeds(i) ==
    /\ i \in 1..Len(attempts)
    /\ attempts[i] = "pending"
    /\ attempts' = [attempts EXCEPT ![i] = "fulfilled"]
    /\ UNCHANGED <<cached, callers, eventVars, bookingVars, loadVars>>

\* mongoose.connect() of line 56 settles: the driver could not connect.
ConnectFails(i) ==
    /\ i \in 1..Len(attempts)
    /\ attempts[i] = "pending"
    /\ attempts' = [attempts EXCEPT ![i] = "rejected"]
    /\ UNCHANGED <<cached, callers, eventVars, bookingVars, loadVars>>

\* A slip that swallows the rejection and hands back the (empty) cache field.
AwaitOutcome_Swallow(i) ==
    IF attempts[i] = "fulfilled"
      THEN [kind |-> "handle", val |-> Handle(i), attempt |-> i, path |-> "awaited"]
      ELSE [kind |-> "handle", val |-> cached.conn, attempt |-> i, path |-> "awaited"]

\* Line 62: what `await cached.promise` gives the suspended call once the
\* promise settled: the resolved instance, or the rejection thrown.
AwaitOutcome(i) ==
    IF attempts[i] = "fulfilled"
      THEN [kind |-> "handle", val |-> Handle(i), attempt |-> i, path |-> "awaited"]
      ELSE [kind |-> "error", val |-> Null, attempt |-> i, path |-> "awaited"]

\* A variant that forgets the stored promise when it was rejected.
Resume_ResetsOnFailure(c) ==
    /\ callers[c].pc = "awaiting"
    /\ attempts[callers[c].awaited] # "pending"
    /\ LET out == AwaitOutcome(callers[c].awaited) IN
         /\ callers' = [callers EXCEPT ![c] =
                          [@ EXCEPT !.pc = "idle", !.awaited = Null, !.last = out]]
         /\ IF out.kind = "handle"
              THEN cached' = [cached EXCEPT !.conn = out.val]
              ELSE cached' = [cached EXCEPT !.promise = Null]
    /\ UNCHANGED <<attempts, eventVars, bookingVars, loadVars>>

\* Lines 62-63: the continuation of a suspended call. On fulfilment it
\* stores the instance in cached.conn and returns it; on rejection the
\* await throws and the call rejects, leaving the cache as it is.
Resume(c) ==
    /\ callers[c].pc = "awaiting"
    /\ attempts[callers[c].awaited] # "pending"
    /\ LET out == AwaitOutcome(callers[c].awaited) IN
         /\ callers' = [callers EXCEPT ![c] =
                          [@ EXCEPT !.pc = "idle", !.awaited = Null, !.last = out]]
         /\ IF out.kind = "handle"
              THEN cached' = [cached EXCEPT !.conn = out.val]
              ELSE UNCHANGED cached
    /\ UNCHANGED <<attempts, eventVars, bookingVars, loadVars>>

(***************************************************************************)
(*                              Strings                                    *)
(***************************************************************************)

\* `undefined`: a field that was never set. No string has a character of
\* more than one letter, so the value differs from every string.
Absent == <<"undefined">>

\* `null`, as normalizeTime returns it.
NullStr == <<"null">>

IsString(v) == v # Absent /\ v # NullStr

LowerLetters ==
    <<"a","b","c","d","e","f","g","h","i","j","k","l","m",
      "n","o","p","q","r","s","t","u","v","w","x","y","z">>

UpperLetters ==
    <<"A","B","C","D","E","F","G","H","I","J","K","L","M",
      "N","O","P","Q","R","S","T","U","V","W","X","Y","Z">>

DigitChars == <<"0","1","2","3","4","5","6","7","8","9">>

Range(f) == {f[i] : i \in DOMAIN f}

\* \s of the patterns and of String.prototype.trim.
IsSpace(ch) == ch \in {" ", "\t", "\n"}

\* \d
IsDigit(ch) == ch \in Range(DigitChars)

\* [a-z0-9]
IsSlugChar(ch) == ch \in Range(LowerLetters) \/ IsDigit(ch)

DigitVal(ch) == (CHOOSE i \in DOMAIN DigitChars : DigitChars[i] = ch) - 1

ToLowerChar(ch) ==
    IF ch \in Range(UpperLetters)
      THEN LowerLetters[CHOOSE i \in DOMAIN UpperLetters : UpperLetters[i] = ch]
      ELSE ch

\* String.prototype.toLowerCase
ToLowerCase(s) == [i \in 1..Len(s) |-> ToLowerChar(s[i])]

RECURSIVE TrimStart(_)
TrimStart(s) ==
    IF s # << >> /\ IsSpace(Head(s)) THEN TrimStart(Tail(s)) ELSE s

RECURSIVE TrimEnd(_)
TrimEnd(s) ==
    IF s # << >> /\ IsSpace(s[Len(s)]) THEN TrimEnd(SubSeq(s, 1, Len(s) - 1)) ELSE s

\* String.prototype.trim
Trim(s) == TrimEnd(TrimStart(s))

\* parseInt(s, 10) of a string of decimal digits.
RECURSIVE ParseInt(_)
ParseInt(s) ==
    IF s = << >> THEN 0 ELSE 10 * ParseInt(SubSeq(s, 1, Len(s) - 1)) + DigitVal(s[Len(s)])

\* Number.prototype.toString of a natural number.
RECURSIVE NatToString(_)
NatToString(n) ==
    IF n < 10 THEN <<DigitChars[n + 1]>>
    ELSE NatToString(n \div 10) \o <<DigitChars[(n % 10) + 1]>>

\* String.prototype.padStart(width, '0')
RECURSIVE PadStart(_, _)
PadStart(s, width) == IF Len(s) >= width THEN s ELSE PadStart(<<"0">> \o s, width)

(***************************************************************************)
(*        slugify and normalizeTime: src/database/event.model.ts           *)
(***************************************************************************)

\* A slip that replaces each character by a hyphen instead of each run.
RECURSIVE ReplaceNonSlugRuns_PerChar(_)
ReplaceNonSlugRuns_PerChar(s) ==
    IF s = << >> THEN << >>
    ELSE IF IsSlugChar(Head(s))
      THEN <<Head(s)>> \o ReplaceNonSlugRuns_PerChar(Tail(s))
      ELSE <<"-">> \o ReplaceNonSlugRuns_PerChar(Tail(s))

RECURSIVE DropNonSlugPrefix(_)
DropNonSlugPrefix(s) ==
    IF s # << >> /\ ~IsSlugChar(Head(s)) THEN DropNonSlugPrefix(Tail(s)) ELSE s

\* Line 37: .replace(/[^a-z0-9]+/g, '-')
RECURSIVE ReplaceNonSlugRuns(_)
ReplaceNonSlugRuns(s) ==
    IF s = << >> THEN << >>
    ELSE IF IsSlugChar(Head(s))
      THEN <<Head(s)>> \o ReplaceNonSlugRuns(Tail(s))
      ELSE <<"-">> \o ReplaceNonSlugRuns(DropNonSlugPrefix(s))

RECURSIVE DropHyphensStart(_)
DropHyphensStart(s) ==
    IF s # << >> /\ Head(s) = "-" THEN DropHyphensStart(Tail(s)) ELSE s

RECURSIVE DropHyphensEnd(_)
DropHyphensEnd(s) ==
    IF s # << >> /\ s[Len(s)] = "-" THEN DropHyphensEnd(SubSeq(s, 1, Len(s) - 1)) ELSE s

\* Line 38: .replace(/^-+|-+$/g, '')
TrimHyphens(s) == DropHyphensEnd(DropHyphensStart(s))

\* Lines 32-39
slugify(value) == TrimHyphens(ReplaceNonSlugRuns(ToLowerCase(Trim(value))))

\* [0-2]
IsHourTens(ch) == ch \in {"0", "1", "2"}

\* [0-5]
IsMinuteTens(ch) == ch \in {"0", "1", "2", "3", "4", "5"}

NoMatch == << >>

\* Line 47: trimmed.match(/^([0-2]?\d):([0-5]\d)$/), as <<hour, minutes>>.
MatchColon(t) ==
    IF Len(t) = 4 /\ IsDigit(t[1]) /\ t[2] = ":" /\ IsMinuteTens(t[3]) /\ IsDigit(t[4])
      THEN <<SubSeq(t, 1, 1), SubSeq(t, 3, 4)>>
    ELSE IF Len(t) = 5 /\ IsHourTens(t[1]) /\ IsDigit(t[2]) /\ t[3] = ":"
            /\ IsMinuteTens(t[4]) /\ IsDigit(t[5])
      THEN <<SubSeq(t, 1, 2), SubSeq(t, 4, 5)>>
    ELSE NoMatch

\* Line 57: trimmed.match(/^([0-2]?\d)([0-5]\d)$/), as <<hour, minutes>>.
MatchCompact(t) ==
    IF Len(t) = 3 /\ IsDigit(t[1]) /\ IsMinuteTens(t[2]) /\ IsDigit(t[3])
      THEN <<SubSeq(t, 1, 1), SubSeq(t, 2, 3)>>
    ELSE IF Len(t) = 4 /\ IsHourTens(t[1]) /\ IsDigit(t[2])
            /\ IsMinuteTens(t[3]) /\ IsDigit(t[4])
      THEN <<SubSeq(t, 1, 2), SubSeq(t, 3, 4)>>
    ELSE NoMatch

\* The largest hour normalizeTime accepts (lines 51 and 61).
MaxHour == 23

\* A slip in the range check of the hour.
HourTooLarge_OffByOne(hour) == hour > MaxHour + 1

\* Lines 51 and 61: if (hour > 23) return null
HourTooLarge(hour) == hour > MaxHour

\* A slip that writes the seconds as well.
FormatTime_WithSeconds(m) ==
    LET hour == ParseInt(m[1]) IN
      IF HourTooLarge(hour) THEN NullStr
      ELSE PadStart(NatToString(hour), 2) \o <<":">> \o m[2] \o <<":", "0", "0">>

\* Lines 50-53 and 59-63: the hour parsed, checked and padded.
FormatTime(m) ==
    LET hour == ParseInt(m[1]) IN
      IF HourTooLarge(hour) THEN NullStr
      ELSE PadStart(NatToString(hour), 2) \o <<":">> \o m[2]

\* Lines 43-67
normalizeTime(value) ==
    LET trimmed == Trim(value) IN
      IF MatchColon(trimmed) # NoMatch THEN FormatTime(MatchColon(trimmed))
      ELSE IF MatchCompact(trimmed) # NoMatch THEN FormatTime(MatchCompact(trimmed))
      ELSE NullStr


(***************************************************************************)
(*   new Date(string) and Date.prototype.toISOString, as lines 150-154     *)
(*   use them. An instant is a whole number of hours since the epoch.      *)
(*   Two input forms are parsed: the ISO date-only form YYYY-MM-DD, which  *)
(*   ECMAScript reads as UTC, and "Month D, YYYY", which the engine reads  *)
(*   as local time. Every other string is taken to be unparseable.         *)
(***************************************************************************)

MonthNames ==
    << <<"J","a","n","u","a","r","y">>, <<"F","e","b","r","u","a","r","y">>,
       <<"M","a","r","c","h">>, <<"A","p","r","i","l">>, <<"M","a","y">>,
       <<"J","u","n","e">>, <<"J","u","l","y">>, <<"A","u","g","u","s","t">>,
       <<"S","e","p","t","e","m","b","e","r">>, <<"O","c","t","o","b","e","r">>,
       <<"N","o","v","e","m","b","e","r">>, <<"D","e","c","e","m","b","e","r">> >>

AllDigits(s) == \A i \in DOMAIN s : IsDigit(s[i])

StartsWith(s, prefix) ==
    Len(s) >= Len(prefix) /\ SubSeq(s, 1, Len(prefix)) = prefix

\* Days from 1970-01-01 to the civil date y-m-d of the proleptic Gregorian
\* calendar (MakeDay of ECMAScript).
DaysFromCivil(y, m, d) ==
    LET yy  == IF m <= 2 THEN y - 1 ELSE y
        era == yy \div 400
        yoe == yy - era * 400
        mp  == (m + 9) % 12
        doy == (153 * mp + 2) \div 5 + d - 1
        doe == yoe * 365 + yoe \div 4 - yoe \div 100 + doy
    IN  era * 146097 + doe - 719468

\* The civil date of a day number (YearFromTime, MonthFromTime, DateFromTime).
CivilFromDays(z) ==
    LET zz  == z + 719468
        era == zz \div 146097
        doe == zz - era * 146097
        yoe == (doe - doe \div 1460 + doe \div 36524 - doe \div 146096) \div 365
        doy == doe - (365 * yoe + yoe \div 4 - yoe \div 100)
        mp  == (5 * doy + 2) \div 153
        d   == doy - (153 * mp + 2) \div 5 + 1
        m   == IF mp < 10 THEN mp + 3 ELSE mp - 9
        y   == yoe + era * 400 + (IF m <= 2 THEN 1 ELSE 0)
    IN  [y |-> y, m |-> m, d |-> d]

HoursPerDay == 24

\* An Invalid Date: getTime() is NaN.
InvalidDate == [nan |-> TRUE, t |-> 0]

ValidDate(t) == [nan |-> FALSE, t |-> t]

\* YYYY-MM-DD, read as midnight UTC. Engines differ on a day past the end
\* of its month; no input has one.
ParseIsoDate(s) ==
    IF /\ Len(s) = 10 /\ s[5] = "-" /\ s[8] = "-"
       /\ AllDigits(SubSeq(s, 1, 4)) /\ AllDigits(SubSeq(s, 6, 7))
       /\ AllDigits(SubSeq(s, 9, 10))
      THEN LET y == ParseInt(SubSeq(s, 1, 4))
               m == ParseInt(SubSeq(s, 6, 7))
               d == ParseInt(SubSeq(s, 9, 10))
           IN  IF m \in 1..12 /\ d \in 1..31
                 THEN ValidDate(DaysFromCivil(y, m, d) * HoursPerDay)
                 ELSE InvalidDate
      ELSE InvalidDate

\* "Month D, YYYY" or "Month DD, YYYY", read as midnight local time, where
\* local time is UTC + tzOffset hours.
ParseTextDate(s, tzOffset) ==
    LET ms == {i \in DOMAIN MonthNames : StartsWith(s, MonthNames[i] \o <<" ">>)} IN
      IF ms = {} THEN InvalidDate
      ELSE LET m    == CHOOSE i \in ms : \A j \in ms : Len(MonthNames[j]) <= Len(MonthNames[i])
               rest == SubSeq(s, Len(MonthNames[m]) + 2, Len(s))
               nd   == IF Len(rest) >= 2 /\ IsDigit(rest[2]) THEN 2 ELSE 1
           IN  IF /\ Len(rest) = nd + 6
                  /\ AllDigits(SubSeq(rest, 1, nd))
                  /\ rest[nd + 1] = "," /\ rest[nd + 2] = " "
                  /\ AllDigits(SubSeq(rest, nd + 3, nd + 6))
                  /\ ParseInt(SubSeq(rest, 1, nd)) \in 1..31
                 THEN ValidDate(DaysFromCivil(ParseInt(SubSeq(rest, nd + 3, nd + 6)), m,
                                              ParseInt(SubSeq(rest, 1, nd))) * HoursPerDay
                                - tzOffset)
                 ELSE InvalidDate

\* Line 150: new Date(doc.date)
NewDate(s, tzOffset) ==
    IF ~ParseIsoDate(s).nan THEN ParseIsoDate(s) ELSE ParseTextDate(s, tzOffset)

\* Date.prototype.toISOString: YYYY-MM-DDTHH:mm:ss.sssZ of the instant in UTC.
ToISOString(t) ==
    LET day == t \div HoursPerDay
        c   == CivilFromDays(day)
    IN  PadStart(NatToString(c.y), 4) \o <<"-">> \o PadStart(NatToString(c.m), 2)
        \o <<"-">> \o PadStart(NatToString(c.d), 2) \o <<"T">>
        \o PadStart(NatToString(t - day * HoursPerDay), 2)
        \o <<":","0","0",":","0","0",".","0","0","0","Z">>

\* String.prototype.split(sep)[0]: the text before the first separator.
RECURSIVE SplitFirst(_, _)
SplitFirst(s, sep) ==
    IF s = << >> \/ Head(s) = sep THEN << >>
    ELSE <<Head(s)>> \o SplitFirst(Tail(s), sep)


(***************************************************************************)
(*        The Event schema and its pre-save hook: event.model.ts           *)
(***************************************************************************)

\* Lines 114-126: requiredStringFields, in the order the hook checks them.
requiredStringFields ==
    <<"title", "description", "overview", "image", "venue", "location",
      "date", "time", "mode", "audience", "organizer">>

\* Lines 71-90: the string paths the schema declares with trim: true.
TrimmedPaths ==
    {"title", "description", "overview", "image", "venue", "location",
     "mode", "audience", "organizer"}

NoError == [kind |-> "none", fields |-> {}]

\* Mongoose's ValidationError, naming the paths whose validators failed.
ValidationError(fs) == [kind |-> "ValidationError", fields |-> fs]
\* Line 131: `${field} is required and must be a non-empty string.`
RequiredError(f) == [kind |-> "required", fields |-> {f}]
\* Line 136
AgendaError == [kind |-> "agenda", fields |-> {"agenda"}]
\* Line 140
TagsError == [kind |-> "tags", fields |-> {"tags"}]
\* Line 152
InvalidDateError == [kind |-> "invalidDate", fields |-> {"date"}]
\* Line 161
InvalidTimeError == [kind |-> "invalidTime", fields |-> {"time"}]
\* The storage layer's duplicate-key error of the unique index on slug.
DuplicateKeyError == [kind |-> "duplicateKey", fields |-> {"slug"}]

\* Mongoose's error of an update that finds its document gone.
DocumentNotFoundError == [kind |-> "documentNotFound", fields |-> {}]

NoDoc == [_id |-> 0]

\* The setter of a String path: trim: true trims the value that is set.
SetString(path, v) == IF path \in TrimmedPaths /\ IsString(v) THEN Trim(v) ELSE v

\* new Event(attrs): every given path goes through its setter; the document
\* is new and every given path counts as modified.
NewDocument(id, a) ==
    [_id |-> id,
     title |-> SetString("title", a.title),
     slug |-> a.slug,
     description |-> SetString("description", a.description),
     overview |-> SetString("overview", a.overview),
     image |-> SetString("image", a.image),
     venue |-> SetString("venue", a.venue),
     location |-> SetString("location", a.location),
     date |-> a.date,
     time |-> a.time,
     mode |-> SetString("mode", a.mode),
     audience |-> SetString("audience", a.audience),
     agenda |-> a.agenda,
     organizer |-> SetString("organizer", a.organizer),
     tags |-> a.tags,
     isNew |-> TRUE,
     modified |-> {f \in Range(requiredStringFields) \cup {"slug"} : a[f] # Absent}]

\* A slip in the length test that lets the empty list through.
IsEmptyList_Never(v) == Len(v) < 0

\* Lines 86 and 95 (value.length > 0, negated) and lines 135 and 139
\* (doc.agenda.length === 0): the list has no item.
IsEmptyList(v) == Len(v) = 0

\* Lines 71-98: the schema's validators, which doc.save() runs before the
\* pre-save hooks. A required String fails when undefined or empty; agenda
\* and tags fail their length validator when empty.
SchemaInvalidPaths(d) ==
    {f \in Range(requiredStringFields) : ~IsString(d[f]) \/ d[f] = << >>}
    \cup (IF IsEmptyList(d.agenda) THEN {"agenda"} ELSE {})
    \cup (IF IsEmptyList(d.tags) THEN {"tags"} ELSE {})

\* Line 130: typeof value !== 'string' || value.trim().length === 0
IsBlank(v) == ~IsString(v) \/ Len(Trim(v)) = 0

\* Lines 128-133: the fields that fail the check of the loop.
BlankFields(d) ==
    {i \in DOMAIN requiredStringFields : IsBlank(d[requiredStringFields[i]])}

\* !value, for a string or undefined
Falsy(v) == ~IsString(v) \/ v = << >>

\* Line 144: doc.isModified('title') || !doc.slug
SlugIsStale(d) == "title" \in d.modified \/ Falsy(d.slug)

\* Lines 144-146
WithSlug(d) == IF SlugIsStale(d) THEN [d EXCEPT !.slug = slugify(d.title)] ELSE d

\* Lines 149-155: the document after the date step, and the step's error.
DateStep(d, zone) ==
    IF Falsy(d.date) THEN [doc |-> d, error |-> NoError]
    ELSE LET parsed == NewDate(d.date, zone) IN
           IF parsed.nan THEN [doc |-> d, error |-> InvalidDateError]
           ELSE [doc |-> [d EXCEPT !.date = SplitFirst(ToISOString(parsed.t), "T")],
                 error |-> NoError]

\* Lines 158-164: the document after the time step, and the step's error.
TimeStep(d) ==
    IF Falsy(d.time) THEN [doc |-> d, error |-> NoError]
    ELSE LET normalized == normalizeTime(d.time) IN
           IF Falsy(normalized) THEN [doc |-> d, error |-> InvalidTimeError]
           ELSE [doc |-> [d EXCEPT !.time = normalized], error |-> NoError]

\* A variant of the hook that normalizes the time before the date.
preSave_TimeFirst(d, zone) ==
    IF BlankFields(d) # {}
      THEN [doc |-> d,
            error |-> RequiredError(requiredStringFields[
                        CHOOSE i \in BlankFields(d) : \A j \in BlankFields(d) : i <= j])]
    ELSE IF IsEmptyList(d.agenda) THEN [doc |-> d, error |-> AgendaError]
    ELSE IF IsEmptyList(d.tags) THEN [doc |-> d, error |-> TagsError]
    ELSE LET timed == TimeStep(WithSlug(d)) IN
           IF timed.error # NoError THEN timed ELSE DateStep(timed.doc, zone)

\* Lines 110-167: the pre-save hook. It gives the document as the hook
\* leaves it, assignments made before a failing step included, and the
\* error handed to next() (NoError for a plain next()).
preSave(d, zone) ==
    IF BlankFields(d) # {}
      THEN [doc |-> d,
            error |-> RequiredError(requiredStringFields[
                        CHOOSE i \in BlankFields(d) : \A j \in BlankFields(d) : i <= j])]
    ELSE IF IsEmptyList(d.agenda) THEN [doc |-> d, error |-> AgendaError]
    ELSE IF IsEmptyList(d.tags) THEN [doc |-> d, error |-> TagsError]
    ELSE LET dated == DateStep(WithSlug(d), zone) IN
           IF dated.error # NoError THEN dated ELSE TimeStep(dated.doc)

\* What the collection stores of a document.
Stored(d) ==
    [_id |-> d._id, title |-> d.title, slug |-> d.slug, date |-> d.date,
     time |-> d.time, agenda |-> d.agenda, tags |-> d.tags]

\* Lines 72 and 170: the unique index on slug.
SlugTaken(d) == \E e \in events : e.slug = d.slug /\ e._id # d._id

\* Event.exists({ _id: id })
EventExists(id) == \E e \in events : e._id = id

\* doc.save(): the schema's validation, then the pre-save hook, then the
\* write to the collection: an insert for a new document, an update for a
\* saved one, which fails when the stored document is gone. The unique index
\* on slug can refuse either.
SaveEvent ==
    /\ doc # NoDoc
    /\ LET invalid == SchemaInvalidPaths(doc)
           hooked  == preSave(doc, tz)
           call    == [wasNew |-> doc.isNew, wasModified |-> doc.modified]
       IN  IF invalid # {}
             THEN /\ saveResult' = [status |-> "failed", error |-> ValidationError(invalid),
                                    call |-> call]
                  /\ UNCHANGED <<doc, events>>
           ELSE IF hooked.error # NoError
             THEN /\ saveResult' = [status |-> "failed", error |-> hooked.error,
                                    call |-> call]
                  /\ doc' = hooked.doc
                  /\ UNCHANGED events
           ELSE IF ~doc.isNew /\ ~EventExists(doc._id)
             THEN /\ saveResult' = [status |-> "failed", error |-> DocumentNotFoundError,
                                    call |-> call]
                  /\ doc' = hooked.doc
                  /\ UNCHANGED events
           ELSE IF SlugTaken(hooked.doc)
             THEN /\ saveResult' = [status |-> "failed", error |-> DuplicateKeyError,
                                    call |-> call]
                  /\ doc' = hooked.doc
                  /\ UNCHANGED events
           ELSE /\ saveResult' = [status |-> "saved", error |-> NoError, call |-> call]
                /\ doc' = [hooked.doc EXCEPT !.isNew = FALSE, !.modified = {}]
                /\ events' = {e \in events : e._id # doc._id} \cup {Stored(hooked.doc)}
    /\ UNCHANGED <<tz, attrs, connVars, bookingVars, loadVars>>


\* doc.title = t, on the current document: the setter trims the value, and
\* the path counts as modified when the value changed.
SetTitle(t) ==
    /\ doc # NoDoc
    /\ SetString("title", t) # doc.title
    /\ doc' = [doc EXCEPT !.title = SetString("title", t),
                          !.modified = @ \cup {"title"}]
    /\ UNCHANGED <<tz, attrs, saveResult, events, connVars, bookingVars, loadVars>>

(***************************************************************************)
(*       The Booking schema and its pre-save hook: event.model.ts          *)
(***************************************************************************)

\* Number of Booking documents saved concurrently.
NBookings == 2

BookingIds == 1..NBookings

\* An eventId that was not given.
NoId == 0

\* Lines 213-218: the setter of email trims and lower-cases.
SetEmail(v) == IF IsString(v) THEN ToLowerCase(Trim(v)) ELSE v

\* [^\s@]+
IsAddressPart(s) == s # << >> /\ \A i \in DOMAIN s : ~IsSpace(s[i]) /\ s[i] # "@"

\* Line 203: EMAIL_REGEX = /^[^\s@]+@[^\s@]+\.[^\s@]+$/
EmailMatches(s) ==
    \E at \in DOMAIN s : \E dot \in DOMAIN s :
        /\ s[at] = "@" /\ s[dot] = "." /\ at < dot
        /\ IsAddressPart(SubSeq(s, 1, at - 1))
        /\ IsAddressPart(SubSeq(s, at + 1, dot - 1))
        /\ IsAddressPart(SubSeq(s, dot + 1, Len(s)))

\* new Booking(attrs)
NewBooking(email, eventId) ==
    [email |-> SetEmail(email), eventId |-> eventId, pc |-> "new", error |-> "none",
     checked |-> "no", thrown |-> "none"]

\* Lines 207-218: the schema's validators: eventId and email are required.
BookingSchemaInvalid(b) == b.eventId = NoId \/ Falsy(b.email)

\* A slip that leaves out the test of the pattern.
EmailInvalid_OnlyMissing(b) == Falsy(b.email)

\* Line 231: !doc.email || !EMAIL_REGEX.test(doc.email)
EmailInvalid(b) == Falsy(b.email) \/ ~EmailMatches(b.email)

\* booking.save(), up to the suspension of its pre-save hook: the schema's
\* validation, then lines 229-241 of the hook. The hook fails on a bad email
\* (232) or a missing eventId (236); otherwise it issues Event.exists and
\* suspends.
BeginSaveBooking(b) ==
    /\ bookings[b].pc = "new"
    /\ LET bk == bookings[b] IN
         bookings' = [bookings EXCEPT ![b] =
            IF BookingSchemaInvalid(bk)
              THEN [bk EXCEPT !.pc = "failed", !.error = "ValidationError"]
            ELSE IF EmailInvalid(bk) THEN [bk EXCEPT !.pc = "failed", !.error = "invalidEmail"]
            ELSE IF bk.eventId = NoId
              THEN [bk EXCEPT !.pc = "failed", !.error = "eventIdRequired"]
            ELSE [bk EXCEPT !.pc = "checking"]]
    /\ UNCHANGED <<stored, connVars, eventVars, loadVars>>

\* A slip that takes any answer of the query for a yes.
EventFound_Always(id) == TRUE

\* Line 241: the answer of Event.exists, read from the collection as it is
\* when the query runs.
EventFound(id) == EventExists(id)

\* Lines 241-249: the query answers and the hook resumes: the event is
\* missing and the hook fails (243), or it calls next() and the insert of
\* the Booking is issued. `checked` notes what the collection held when the
\* query ran.
ExistsAnswers(b) ==
    /\ bookings[b].pc = "checking"
    /\ LET bk   == bookings[b]
           held == IF EventExists(bk.eventId) THEN "found" ELSE "missing"
       IN  bookings' = [bookings EXCEPT ![b] =
              IF EventFound(bk.eventId)
                THEN [bk EXCEPT !.pc = "writing", !.checked = held]
                ELSE [bk EXCEPT !.pc = "failed", !.error = "eventNotFound",
                                !.checked = held]]
    /\ UNCHANGED <<stored, connVars, eventVars, loadVars>>

\* The errors Event.exists can fail with.
LookupErrors == {"connectionError", "timeoutError"}

\* A slip that reports a failed lookup as an event that is not there.
HandOn_AsNotFound(error) == "eventNotFound"

\* Lines 245-246: catch (error) { return next(error as Error) }
HandOn(error) == error

\* Lines 241 and 245-247: the query itself fails, and the hook hands its
\* error on. `thrown` notes the error the query failed with.
ExistsThrows(b) ==
    /\ bookings[b].pc = "checking"
    /\ \E error \in LookupErrors :
          bookings' = [bookings EXCEPT ![b] =
             [@ EXCEPT !.pc = "failed", !.error = HandOn(error), !.checked = "threw",
                       !.thrown = error]]
    /\ UNCHANGED <<stored, connVars, eventVars, loadVars>>

\* The insert that booking.save() issues after its hooks passed reaches the
\* collection. `eventExisted` notes whether the Event is there at that time.
InsertBooking(b) ==
    /\ bookings[b].pc = "writing"
    /\ bookings' = [bookings EXCEPT ![b] = [@ EXCEPT !.pc = "persisted"]]
    /\ stored' = stored \cup {[id |-> b, email |-> bookings[b].email,
                               eventId |-> bookings[b].eventId,
                               eventExisted |-> EventExists(bookings[b].eventId)]}
    /\ UNCHANGED <<connVars, eventVars, loadVars>>

\* The collaborator deletes an Event: the core has no deletion of its own.
DeleteEvent(id) ==
    /\ EventExists(id)
    /\ events' = {e \in events : e._id # id}
    /\ UNCHANGED <<tz, attrs, doc, saveResult, connVars, bookingVars, loadVars>>


(***************************************************************************)
(*   Module evaluation: lib/mongodb.ts lines 18-34, and the registration   *)
(*   of the models, event.model.ts lines 173-174 and 253-255. A module is  *)
(*   evaluated when it is first imported and again on every hot reload;    *)
(*   `global` and mongoose.models outlive the reloads.                     *)
(***************************************************************************)

\* Number of times each module is evaluated in one process.
MaxLoads == 2

\* The values of process.env.MONGODB_URI: not set, set to nothing, set.
ExampleUri == <<"m">>
UriInputs == {Absent, << >>, ExampleUri}

\* A slip that puts the test off to the first use.
UriMissing_Never(uri) == FALSE

\* Line 20: if (!MONGODB_URI)
UriMissing(uri) == Falsy(uri)

NewProcess(uri) ==
    [uri |-> uri, mongodb |-> "unloaded", error |-> "none", global |-> FALSE, loads |-> 0]

\* The process once lib/mongodb.ts was evaluated with the URI set.
LoadedProcess ==
    [uri |-> ExampleUri, mongodb |-> "loaded", error |-> "none", global |-> TRUE, loads |-> 1]

\* Lines 18-34: the evaluation of lib/mongodb.ts. Without the URI it throws
\* (line 21) and the module's import fails; with it, `cached` is the object
\* on `global` when an earlier evaluation put one there, else a new one
\* (lines 27-30), which is put on `global` (lines 32-34).
LoadMongodb ==
    /\ process.loads < MaxLoads
    /\ IF UriMissing(process.uri)
         THEN /\ process' = [process EXCEPT !.mongodb = "failed", !.loads = @ + 1,
                                            !.error = "configuration"]
              /\ UNCHANGED cached
         ELSE /\ process' = [process EXCEPT !.mongodb = "loaded", !.loads = @ + 1,
                                            !.global = TRUE]
              /\ cached' = IF process.global THEN cached ELSE InitCached
    /\ UNCHANGED <<attempts, callers, registry, eventVars, bookingVars>>

ModelNames == {"Event", "Booking"}

\* mongoose.models[name] when no model of that name was compiled.
NoModel == 0

NoModels == [n \in ModelNames |-> NoModel]

NewRegistry ==
    [models |-> NoModels, exported |-> NoModels, evals |-> [n \in ModelNames |-> 0],
     error |-> "none"]

\* The registry once each model module was evaluated.
LoadedRegistry ==
    [models |-> [n \in ModelNames |-> 1], exported |-> [n \in ModelNames |-> 1],
     evals |-> [n \in ModelNames |-> 1], error |-> "none"]

\* A slip that compiles the model on every evaluation.
Registered_Never(models, name) == FALSE

\* Lines 174 and 254: mongoose.models.Event, mongoose.models.Booking: truthy
\* when a model of that name was compiled.
Registered(models, name) == models[name] # NoModel

\* mongoose.model(name, schema): compiles the schema and registers the model
\* under the name; a name that is taken by the model of another schema gives
\* OverwriteModelError. A model is known by the schema it was compiled from.
MongooseModel(models, name, schema) ==
    IF models[name] # NoModel /\ models[name] # schema
      THEN [models |-> models, model |-> NoModel, error |-> "OverwriteModelError"]
      ELSE [models |-> [models EXCEPT ![name] = schema], model |-> schema, error |-> "none"]

\* Lines 173-174 and 253-255: mongoose.models.X || mongoose.model('X', schema)
GetOrRegister(models, name, schema) ==
    IF Registered(models, name)
      THEN [models |-> models, model |-> models[name], error |-> "none"]
      ELSE MongooseModel(models, name, schema)

\* The evaluation of a model module: it builds a new schema (lines 69-103,
\* 205-223), here numbered by the evaluation, and exports what line 173, or
\* 253, evaluates to; when that throws, the module exports nothing new.
EvaluateModel(name) ==
    /\ registry.evals[name] < MaxLoads
    /\ LET schema == registry.evals[name] + 1
           got    == GetOrRegister(registry.models, name, schema)
       IN  registry' =
             [models |-> got.models,
              exported |-> IF got.error = "none"
                             THEN [registry.exported EXCEPT ![name] = got.model]
                             ELSE registry.exported,
              evals |-> [registry.evals EXCEPT ![name] = schema],
              error |-> IF got.error = "none" THEN registry.error ELSE got.error]
    /\ UNCHANGED <<process, connVars, eventVars, bookingVars>>


(***************************************************************************)
(*                     Inputs of the Event pipeline                        *)
(***************************************************************************)

\* Longest title, and longest time, of the exhaustively enumerated inputs.
MaxTitleLen == 3
MaxTimeLen == 5
\* Number of Event documents built in one run.
MaxEvents == 2

\* All strings over an alphabet, up to a length.
RECURSIVE StringsUpTo(_, _)
StringsUpTo(alphabet, n) ==
    IF n = 0 THEN {<< >>}
    ELSE LET shorter == StringsUpTo(alphabet, n - 1) IN
           shorter \cup {<<ch>> \o w : ch \in alphabet, w \in {x \in shorter : Len(x) = n - 1}}

TitleAlphabet == {"a", "B", "1", "!", " ", "-"}
TimeAlphabet == {"0", "2", "4", "6", ":", " "}

ExampleTitle == <<"M","y"," ","E","v","e","n","t","!"," ","2","0","2","4">>
ExampleSlug == <<"m","y","-","e","v","e","n","t","-","2","0","2","4">>

TitleInputs == StringsUpTo(TitleAlphabet, MaxTitleLen) \cup {ExampleTitle, Absent}

TimeInputs ==
    StringsUpTo(TimeAlphabet, MaxTimeLen)
    \cup { <<"9","3","0">>, <<"0","9","3","0">>, <<"9",":","3","0">>,
           <<"2","5",":","0","0">>, <<"2","3",":","5","9">>, <<"2","3","5","9">>,
           <<"1","9",":","0","7">>, <<" ","9","3","0"," ">>,
           <<"n","o","o","n">>, Absent }

\* The two accepted spellings of a calendar date.
IsoDateOf(y, m, d) ==
    PadStart(NatToString(y), 4) \o <<"-">> \o PadStart(NatToString(m), 2)
    \o <<"-">> \o PadStart(NatToString(d), 2)

TextDateOf(y, m, d) ==
    MonthNames[m] \o <<" ">> \o NatToString(d) \o <<",", " ">> \o PadStart(NatToString(y), 4)

CalendarDates ==
    { <<2024, 3, 5>>, <<2024, 1, 1>>, <<2023, 12, 31>>, <<2024, 2, 29>>,
      <<2024, 3, 1>>, <<1970, 1, 1>>, <<2024, 10, 15>> }

DateInputs ==
    {IsoDateOf(c[1], c[2], c[3]) : c \in CalendarDates}
    \cup {TextDateOf(c[1], c[2], c[3]) : c \in CalendarDates}
    \cup { <<"s","o","o","n">>, <<" ">>, << >>, Absent }

\* Offsets of local time from UTC, in hours.
TimeZones == {-12, -5, 0, 2, 14}

X == <<"x">>

BaseAttrs ==
    [title |-> <<"a">>, slug |-> Absent, description |-> X, overview |-> X,
     image |-> X, venue |-> X, location |-> X,
     date |-> IsoDateOf(2024, 3, 5), time |-> <<"0","9",":","3","0">>,
     mode |-> X, audience |-> X, agenda |-> <<X>>, organizer |-> X, tags |-> <<X>>]

\* Candidates that differ from the base in several places at once.
MixedAttrs ==
    { [BaseAttrs EXCEPT !.title = t, !.slug = s, !.description = de, !.date = da,
                        !.time = ti, !.agenda = ag, !.tags = tg] :
        t \in {<<"a">>, <<"!">>},
        s \in {Absent, <<"o","l","d">>},
        de \in {X},
        da \in {IsoDateOf(2024, 3, 5), TextDateOf(2024, 3, 5), <<"s","o","o","n">>, <<" ">>},
        ti \in {<<"9","3","0">>, <<"2","5",":","0","0">>, <<" ">>},
        ag \in {<< >>, <<X>>},
        tg \in {<< >>, <<X>>} }

StringPaths == Range(requiredStringFields) \ {"title", "date", "time"}

DateCandidates == {[BaseAttrs EXCEPT !.date = d] : d \in DateInputs}

\* The candidates whose normalization is followed on its own: the base with
\* its title, its time or its date varied over all the inputs.
NormalizeCandidates ==
    {[BaseAttrs EXCEPT !.title = t] : t \in TitleInputs}
    \cup {[BaseAttrs EXCEPT !.time = t] : t \in TimeInputs}
    \cup DateCandidates

\* The candidates whose slug is followed through edits of the title: every
\* title, with and without a slug given by the caller.
SlugCandidates ==
    {[BaseAttrs EXCEPT !.title = t, !.slug = g] :
        t \in TitleInputs, g \in {Absent, <<"o","l","d">>}}

\* The candidates of the first document of a document's life: the base with
\* one field varied, and the mixed candidates.
Candidates ==
    {[BaseAttrs EXCEPT !.title = t] : t \in {<<"B"," ","1">>, <<" ","-"," ">>, Absent}}
    \cup DateCandidates
    \cup {[BaseAttrs EXCEPT ![f] = v] : f \in StringPaths, v \in {Absent, << >>, <<" ">>}}
    \cup MixedAttrs

\* The candidates of a later document, and the titles a document is given.
LaterCandidates ==
    {[BaseAttrs EXCEPT !.title = t] : t \in {<<"a">>, <<"A"," ">>, <<"b">>}}

EditTitles == {<<"a">>, <<"b","!">>, <<"?">>}

\* new Event(attrs), after the first document.
NewEvent(a) ==
    /\ doc # NoDoc
    /\ doc._id < MaxEvents
    /\ doc' = NewDocument(doc._id + 1, a)
    /\ attrs' = a
    /\ saveResult' = [status |-> "none", error |-> NoError,
                      call |-> [wasNew |-> TRUE, wasModified |-> {}]]
    /\ UNCHANGED <<tz, events, connVars, bookingVars, loadVars>>

(***************************************************************************)
(*                            Specifications                               *)
(***************************************************************************)

NoCallers == [c \in Callers |->
                [pc |-> "idle", awaited |-> Null, calls |-> 0, last |-> NoResult]]

\* The modules were evaluated, with the URI set; no call was made yet.
ConnIdle ==
    /\ cached = InitCached /\ attempts = << >> /\ callers = NoCallers
    /\ process = LoadedProcess /\ registry = LoadedRegistry

NoSave == [status |-> "none", error |-> NoError,
           call |-> [wasNew |-> TRUE, wasModified |-> {}]]

EventIdle ==
    tz = 0 /\ attrs = BaseAttrs /\ doc = NoDoc /\ saveResult = NoSave /\ events = {}

BookingIdle ==
    bookings = [b \in BookingIds |-> NewBooking(Absent, NoId)] /\ stored = {}

InitConn == ConnIdle /\ EventIdle /\ BookingIdle

NextConn ==
    \/ \E c \in Callers : CallConnect(c)
    \/ \E i \in 1..Len(attempts) : ConnectSucceeds(i)
    \/ \E i \in 1..Len(attempts) : ConnectFails(i)
    \/ \E c \in Callers : Resume(c)

SpecConn == InitConn /\ [][NextConn]_vars

\* The continuation of an `await` on a settled promise is a queued microtask:
\* the event loop runs it.
FairSpecConn == SpecConn /\ \A c \in Callers : WF_vars(Resume(c))

\* The process from its start: the URI is set or not, no module has been
\* evaluated; the modules are evaluated, and evaluated again on a reload,
\* and connectToDatabase() is called.
InitLoad ==
    /\ cached = InitCached /\ attempts = << >> /\ callers = NoCallers
    /\ process \in {NewProcess(u) : u \in UriInputs}
    /\ registry = NewRegistry
    /\ EventIdle /\ BookingIdle

NextLoad ==
    \/ LoadMongodb
    \/ \E n \in ModelNames : EvaluateModel(n)
    \/ NextConn

SpecLoad == InitLoad /\ [][NextLoad]_vars

\* The first document is built from any candidate. The time zone matters to
\* the date alone, so it varies for the candidates that vary the date alone.
InitEvent ==
    /\ ConnIdle
    /\ attrs \in Candidates
    /\ tz \in TimeZones
    /\ (tz = 0 \/ attrs \in DateCandidates)
    /\ doc = NewDocument(1, attrs)
    /\ saveResult = NoSave
    /\ events = {}
    /\ BookingIdle

NextEvent ==
    \/ SaveEvent
    \/ \E t \in EditTitles : SetTitle(t)
    \/ \E a \in LaterCandidates : NewEvent(a)

SpecEvent == InitEvent /\ [][NextEvent]_vars

\* The emails and the event ids a Booking is built from.
EmailInputs ==
    { <<"A","@","b",".","c">>, <<"a","@","b">>, <<"a"," ","b","@","c",".","d">>, Absent }

EventIdInputs == {NoId, 1, 2}

\* One Event document, which is saved and which the collaborator may delete,
\* and the Bookings, each built from any email and any event id.
InitBooking ==
    /\ ConnIdle
    /\ tz = 0 /\ attrs = BaseAttrs /\ doc = NewDocument(1, BaseAttrs)
    /\ saveResult = NoSave /\ events = {}
    /\ bookings \in [BookingIds -> {NewBooking(e, i) : e \in EmailInputs, i \in EventIdInputs}]
    /\ stored = {}

NextBooking ==
    \/ SaveEvent
    \/ \E id \in EventIdInputs : DeleteEvent(id)
    \/ \E b \in BookingIds : BeginSaveBooking(b)
    \/ \E b \in BookingIds : ExistsAnswers(b)
    \/ \E b \in BookingIds : ExistsThrows(b)
    \/ \E b \in BookingIds : InsertBooking(b)

SpecBooking == InitBooking /\ [][NextBooking]_vars

\* One candidate, its title edited and saved any number of times.
InitSlug ==
    /\ ConnIdle
    /\ attrs \in SlugCandidates
    /\ tz = 0
    /\ doc = NewDocument(1, attrs)
    /\ saveResult = NoSave
    /\ events = {}
    /\ BookingIdle

NextSlug ==
    \/ SaveEvent
    \/ \E t \in EditTitles : SetTitle(t)

SpecSlug == InitSlug /\ [][NextSlug]_vars

\* One candidate, saved and saved again: the pipeline on its own.
InitNormalize ==
    /\ ConnIdle
    /\ attrs \in NormalizeCandidates
    /\ tz \in TimeZones
    /\ (tz = 0 \/ attrs \in DateCandidates)
    /\ doc = NewDocument(1, attrs)
    /\ saveResult = NoSave
    /\ events = {}
    /\ BookingIdle

NextNormalize == SaveEvent

SpecNormalize == InitNormalize /\ [][NextNormalize]_vars


(***************************************************************************)
(*                    Properties of the connection cache                   *)
(***************************************************************************)

InFlight == {i \in 1..Len(attempts) : attempts[i] = "pending"}

Awaiting == {c \in Callers : callers[c].pc = "awaiting"}

\* C1: in every interleaving of connectToDatabase() calls, at every moment
\* at most one mongoose.connect() attempt is in flight.
C1_AtMostOneInFlight == Cardinality(InFlight) <= 1

\* C1 witness: two calls wait while the one attempt is still pending.
C1_Witness == Cardinality(InFlight) = 1 /\ Cardinality(Awaiting) >= 2

\* The callers whose last call suspended on the promise and got a handle:
\* calls made while no handle was cached, on an attempt that succeeded.
ResolvedByAwait ==
    {c \in Callers : callers[c].last.kind = "handle" /\ callers[c].last.path = "awaited"}

\* C2: calls made before any handle is cached, whose attempt succeeds, come
\* from exactly one connection attempt and all resolve to the same handle.
C2_OneAttemptSameHandle ==
    ResolvedByAwait # {} =>
        /\ Len(attempts) = 1
        /\ \A c, d \in ResolvedByAwait : callers[c].last.val = callers[d].last.val
        /\ \A c \in ResolvedByAwait : callers[c].last.val = cached.conn

\* C2 witness: every caller called before a handle was cached and resolved.
C2_Witness == ResolvedByAwait = Callers /\ NCallers >= 2

\* C3: once a call has seen the connection attempt fail, the cache is reset:
\* it no longer stores the failed pending operation, so the next call starts
\* a fresh attempt.
C3_CacheResetsOnFailure ==
    \A c \in Callers :
        callers[c].last.kind = "error" => cached.promise # callers[c].last.attempt

\* C4: when the connection attempt fails, no call that awaited it resolves
\* with a handle, and every call awaiting it fails with that failure rather
\* than staying pending.
C4_FailurePropagates ==
    /\ [](\A c \in Callers :
            callers[c].last.path = "awaited" =>
                (callers[c].last.kind = "handle"
                    <=> attempts[callers[c].last.attempt] = "fulfilled"))
    /\ \A c \in Callers :
          (callers[c].pc = "awaiting" /\ attempts[callers[c].awaited] = "rejected")
             ~> (callers[c].pc = "idle" /\ callers[c].last.kind = "error"
                 /\ attempts[callers[c].last.attempt] = "rejected")

\* C4 witness: the attempt failed and two calls that awaited it have failed.
C4_Witness ==
    Cardinality({c \in Callers : callers[c].last.kind = "error"
                                  /\ callers[c].last.attempt = 1}) >= 2

(***************************************************************************)
(*                   Properties of the Booking pipeline                    *)
(***************************************************************************)

\* An event id that no Event ever has: the one document built has another.
UnknownEventId == CHOOSE i \in EventIdInputs : i # NoId /\ i # doc._id

Written(b) == bookings[b].pc \in {"writing", "persisted"}

\* C5 as stated: a Booking whose eventId identifies no existing Event always
\* fails with the referential-integrity error and is never persisted, and a
\* Booking is persisted only if its Event exists at write time.
C5_AlwaysNotFoundAndExistsAtWrite ==
    /\ \A b \in BookingIds :
          bookings[b].eventId = UnknownEventId =>
              /\ ~Written(b)
              /\ (bookings[b].pc = "failed" => bookings[b].error = "eventNotFound")
    /\ \A r \in stored : r.eventExisted

\* C5 amended: a Booking whose eventId identifies no existing Event when the
\* existence check runs fails with the referential-integrity error and is
\* never persisted; one that names no Event at all fails, with the email
\* error when its email is bad and else with the referential-integrity error
\* or the error of the lookup; and a Booking is persisted only if its Event
\* existed when the check ran.
C5_NotFoundAtCheckNeverPersists ==
    \A b \in BookingIds :
        /\ bookings[b].checked = "missing" =>
              bookings[b].pc = "failed" /\ bookings[b].error = "eventNotFound"
        /\ Written(b) => bookings[b].checked = "found"
        /\ bookings[b].eventId = UnknownEventId =>
              /\ ~Written(b)
              /\ bookings[b].pc = "failed" =>
                    IF IsString(bookings[b].email) /\ EmailMatches(bookings[b].email)
                      THEN bookings[b].error \in {"eventNotFound"} \cup LookupErrors
                      ELSE bookings[b].error \in {"ValidationError", "invalidEmail"}

\* C5 witness: a Booking of an unknown Event went through the existence
\* check and failed with the referential-integrity error, and a Booking of
\* an Event the check had found was persisted.
C5_Witness ==
    /\ \E b \in BookingIds :
          /\ bookings[b].eventId = UnknownEventId
          /\ bookings[b].checked = "missing"
          /\ bookings[b].error = "eventNotFound"
    /\ \E r \in stored : bookings[r.id].checked = "found"

\* The second half of C5 as stated, on its own: it fails when the Event is
\* deleted between the check and the insert.
C5_ExistsAtWrite == \A r \in stored : r.eventExisted


(***************************************************************************)
(*                    Properties of the Event pipeline                     *)
(***************************************************************************)

\* C6: when doc.save() fails, at whatever step, the candidate's slug, date
\* and time are what they were before the call.
C6_NoPartialNormalization ==
    [][(SaveEvent /\ saveResult'.status = "failed")
          => (doc'.slug = doc.slug /\ doc'.date = doc.date /\ doc'.time = doc.time)]_vars

\* C7: no stored Event has an empty slug.
C7_StoredSlugNonEmpty == \A e \in events : IsString(e.slug) /\ e.slug # << >>

\* C8: saving an Event that is already saved and has not been changed since
\* succeeds and leaves its slug, date and time as they are.
C8_Idempotent ==
    [][(SaveEvent /\ ~doc.isNew /\ doc.modified = {})
          => /\ saveResult'.status = "saved"
             /\ doc'.slug = doc.slug /\ doc'.date = doc.date /\ doc'.time = doc.time]_vars

\* C8 witness: a date given as text in a zone east of UTC was normalized,
\* and the normalized Event was saved again.
C8_Witness ==
    /\ saveResult.status = "saved" /\ ~saveResult.call.wasNew
    /\ tz = 14
    /\ attrs.date = TextDateOf(2024, 3, 5)
    /\ doc.date = IsoDateOf(2024, 3, 4)

\* The clock times H:mm, HH:mm, Hmm and HHmm, hour 0..23 and minute 00..59.
ClockForms ==
    UNION { { NatToString(h) \o <<":">> \o PadStart(NatToString(m), 2),
              PadStart(NatToString(h), 2) \o <<":">> \o PadStart(NatToString(m), 2),
              NatToString(h) \o PadStart(NatToString(m), 2),
              PadStart(NatToString(h), 2) \o PadStart(NatToString(m), 2) } :
            h \in 0..MaxHour, m \in 0..59 }

\* HH:mm of a clock time: its digits, the hour filled to two.
CanonicalTime(s) ==
    LET digits == PadStart(SelectSeq(s, IsDigit), 4) IN
      SubSeq(digits, 1, 2) \o <<":">> \o SubSeq(digits, 3, 4)

\* The candidate is the base but for its time, which is not blank: the time
\* step decides how the save ends.
TimeDecides ==
    /\ saveResult.status # "none"
    /\ [attrs EXCEPT !.time = BaseAttrs.time] = BaseAttrs
    /\ ~IsBlank(attrs.time)

\* C9 as stated: exactly the clock times are accepted, each rewritten to
\* HH:mm; every other time fails with the invalid-time error.
C9_ExactlyClockForms ==
    TimeDecides =>
        IF attrs.time \in ClockForms
          THEN saveResult.status = "saved" /\ doc.time = CanonicalTime(attrs.time)
          ELSE saveResult.status = "failed" /\ saveResult.error = InvalidTimeError

\* C9 amended: the same of the time with its surrounding whitespace removed.
C9_ClockFormsAfterTrim ==
    TimeDecides =>
        IF Trim(attrs.time) \in ClockForms
          THEN saveResult.status = "saved" /\ doc.time = CanonicalTime(Trim(attrs.time))
          ELSE saveResult.status = "failed" /\ saveResult.error = InvalidTimeError

\* C9 witness: "930" was saved as "09:30".
C9_Witness ==
    /\ saveResult.status = "saved"
    /\ attrs.time = <<"9","3","0">>
    /\ doc.time = <<"0","9",":","3","0">>

\* The maximal runs of [a-z0-9] of a string, in order.
RECURSIVE SlugWords(_, _)
SlugWords(s, word) ==
    IF s = << >> THEN (IF word = << >> THEN << >> ELSE <<word>>)
    ELSE IF IsSlugChar(Head(s)) THEN SlugWords(Tail(s), Append(word, Head(s)))
    ELSE (IF word = << >> THEN << >> ELSE <<word>>) \o SlugWords(Tail(s), << >>)

RECURSIVE JoinWithHyphen(_)
JoinWithHyphen(words) ==
    IF words = << >> THEN << >>
    ELSE IF Len(words) = 1 THEN words[1]
    ELSE words[1] \o <<"-">> \o JoinWithHyphen(Tail(words))

\* The slug the title stands for: its lower-cased runs of letters and
\* digits, joined by single hyphens.
ExpectedSlug(title) == JoinWithHyphen(SlugWords(ToLowerCase(title), << >>))

\* C10: a successful save of a document whose title changed since it was
\* last saved, or which has no slug, sets the slug to the title lower-cased
\* and trimmed, each run of other characters replaced by one hyphen, without
\* leading or trailing hyphens; "My Event! 2024" gives "my-event-2024".
C10_SlugDerivation ==
    [][(/\ SaveEvent
        /\ saveResult'.status = "saved"
        /\ ("title" \in doc.modified \/ doc.slug = Absent \/ doc.slug = << >>))
          => /\ doc'.slug = ExpectedSlug(doc.title)
             /\ (doc.title = ExampleTitle => doc'.slug = ExampleSlug)]_vars

\* C10 witness: a saved document, given a slug by its caller, had its title
\* changed and was saved again with the slug of the new title.
C10_Witness ==
    /\ saveResult.status = "saved"
    /\ ~saveResult.call.wasNew
    /\ "title" \in saveResult.call.wasModified
    /\ attrs.slug = <<"o","l","d">>
    /\ doc.title = <<"b","!">>
    /\ doc.slug = <<"b">>

\* The candidate is the base but for its date, which is not blank: the date
\* step decides how the save ends.
DateDecides ==
    /\ saveResult.status # "none"
    /\ [attrs EXCEPT !.date = BaseAttrs.date] = BaseAttrs
    /\ ~IsBlank(attrs.date)

\* YYYY-MM-DD of the UTC calendar day an instant falls on.
UtcCalendarDate(t) ==
    LET c == CivilFromDays(t \div HoursPerDay) IN IsoDateOf(c.y, c.m, c.d)

\* C11: the date step fails with the invalid-date error when the date is
\* unparseable, and otherwise rewrites it to YYYY-MM-DD, the UTC calendar
\* date of the parsed instant; "March 5, 2024" is stored as "2024-03-05" in
\* every time zone of the process.
C11_DateNormalization ==
    DateDecides =>
        IF NewDate(attrs.date, tz).nan
          THEN saveResult.status = "failed" /\ saveResult.error = InvalidDateError
          ELSE /\ saveResult.status = "saved"
               /\ doc.date = UtcCalendarDate(NewDate(attrs.date, tz).t)
               /\ (attrs.date = TextDateOf(2024, 3, 5) => doc.date = IsoDateOf(2024, 3, 5))

\* The part of C11 that the hook keeps in every zone: an unparseable date
\* fails, a parseable one is stored as the UTC day of its instant.
C11_UtcDayOfInstant ==
    DateDecides =>
        IF NewDate(attrs.date, tz).nan
          THEN saveResult.status = "failed" /\ saveResult.error = InvalidDateError
          ELSE /\ saveResult.status = "saved"
               /\ doc.date = UtcCalendarDate(NewDate(attrs.date, tz).t)

\* C12: a save of an Event whose agenda is empty or whose tags is empty
\* fails and writes nothing, whatever its other fields are; no stored Event
\* has an empty agenda or empty tags.
C12_EmptyListsRejected ==
    /\ [](\A e \in events : Len(e.agenda) > 0 /\ Len(e.tags) > 0)
    /\ [][(SaveEvent /\ (Len(doc.agenda) = 0 \/ Len(doc.tags) = 0))
            => (saveResult'.status = "failed" /\ events' = events)]_vars

\* C12 witness: a save failed, and writes nothing, of a document whose only
\* fault is its empty agenda or its empty tags: with an item in each list
\* the schema and the hook both pass it.
C12_Witness ==
    /\ saveResult.status = "failed"
    /\ Len(doc.agenda) = 0 \/ Len(doc.tags) = 0
    /\ LET filled == [doc EXCEPT !.agenda = <<X>>, !.tags = <<X>>] IN
         SchemaInvalidPaths(filled) = {} /\ preSave(filled, tz).error = NoError
    /\ events = {}

(***************************************************************************)
(*          Properties of module evaluation and of the cache               *)
(***************************************************************************)

\* C13: when MONGODB_URI is missing, the evaluation of lib/mongodb.ts ends
\* with the configuration error, before any connectToDatabase() call and
\* without one; no call is ever made and no connection attempt is started.
C13_ConfigErrorAtLoad ==
    /\ [](process.uri \in {Absent, << >>} =>
            /\ process.mongodb # "loaded"
            /\ attempts = << >>
            /\ \A c \in Callers : callers[c].calls = 0 /\ callers[c].pc = "idle")
    /\ [][(LoadMongodb /\ process.uri \in {Absent, << >>})
            => (process'.mongodb = "failed" /\ process'.error = "configuration")]_vars

\* C13 witness: without the URI, each evaluation of the module has thrown
\* the configuration error, and no call was made.
C13_Witness ==
    /\ process.uri = Absent
    /\ process.mongodb = "failed" /\ process.error = "configuration"
    /\ process.loads = MaxLoads
    /\ attempts = << >>

\* C14: evaluating a model module any number of times never raises the
\* duplicate-definition error, and every evaluation after the first exports
\* the model the first one compiled, whatever schema it built itself.
C14_RegistrationIdempotent ==
    /\ [](registry.error = "none")
    /\ [](\A n \in ModelNames :
            registry.evals[n] >= 1 => registry.exported[n] = 1 /\ registry.models[n] = 1)
    /\ [][\A n \in ModelNames :
            (EvaluateModel(n) /\ registry.evals[n] >= 1)
               => /\ registry'.exported[n] = registry.exported[n]
                  /\ registry'.models = registry.models]_vars

\* C14 witness: both model modules were evaluated more than once and export
\* the model of their first evaluation.
C14_Witness ==
    \A n \in ModelNames :
        /\ registry.evals[n] = MaxLoads /\ MaxLoads >= 2
        /\ registry.exported[n] = 1
        /\ registry.error = "none"

\* C15: once a handle is cached, a connectToDatabase() call returns that
\* handle at once and starts no connection attempt; every handle a call
\* has returned is the cached one.
C15_CachedHandleReturned ==
    /\ [](cached.conn # Null =>
            \A c \in Callers : callers[c].last.kind = "handle" =>
                                  callers[c].last.val = cached.conn)
    /\ [][\A c \in Callers :
            (CallConnect(c) /\ cached.conn # Null)
               => /\ callers'[c].pc = "idle"
                  /\ callers'[c].last.kind = "handle"
                  /\ callers'[c].last.val = cached.conn
                  /\ attempts' = attempts
                  /\ cached' = cached]_vars

\* C15 witness: a call found the handle cached and returned it, while the
\* one attempt made is long settled.
C15_Witness ==
    /\ cached.conn # Null
    /\ \E c \in Callers :
          callers[c].last.path = "cached" /\ callers[c].last.val = cached.conn
    /\ attempts = <<"fulfilled">>

\* The call of caller c resumes on a fulfilled promise: line 62 assigns
\* cached.conn.
WritesConn(c) == Resume(c) /\ attempts[callers[c].awaited] = "fulfilled"

\* C16 as stated: cached.conn is written exactly once, so every write finds
\* it null; and once non-null its value never changes.
C16_WrittenExactlyOnce ==
    /\ [][\A c \in Callers : WritesConn(c) => cached.conn = Null]_vars
    /\ [][cached.conn # Null => cached'.conn = cached.conn]_vars

\* C16 amended: cached.conn is null until the first successful attempt;
\* every call that awaited the attempt writes it, each the handle of that
\* attempt; and once non-null its value never changes.
C16_HandleNeverChanges ==
    /\ [](cached.conn # Null =>
            \E i \in 1..Len(attempts) :
                attempts[i] = "fulfilled" /\ cached.conn = Handle(i))
    /\ [][\A c \in Callers :
            WritesConn(c) => /\ cached'.conn = Handle(callers[c].awaited)
                             /\ cached.conn \in {Null, cached'.conn}]_vars
    /\ [][cached.conn # Null => cached'.conn = cached.conn]_vars

\* C16 witness: every caller awaited the one attempt and each of them, on
\* resuming, has written the handle.
C16_Witness ==
    /\ \A c \in Callers :
          callers[c].calls = 1 /\ callers[c].last.path = "awaited"
          /\ callers[c].last.kind = "handle"
    /\ NCallers >= 2
    /\ cached.conn = Handle(1)

\* C20: over the life of the process, reloads of the module included and
\* whether the attempt succeeds or fails, mongoose.connect() is started at
\* most once: the stored promise, once set, is never cleared or replaced.
C20_ConnectStartedAtMostOnce ==
    /\ [](Len(attempts) <= 1)
    /\ [][cached.promise # Null => cached'.promise = cached.promise]_vars

\* C20 witness: the one attempt failed, the module was evaluated again, and
\* a caller that had seen the failure called again, to fail the same way.
C20_Witness ==
    /\ attempts = <<"rejected">>
    /\ process.loads = MaxLoads /\ MaxLoads >= 2
    /\ \E c \in Callers :
          callers[c].calls >= 2 /\ callers[c].pc = "idle" /\ callers[c].last.kind = "error"

(***************************************************************************)
(*                 Order of the steps of the two pipelines                 *)
(***************************************************************************)

\* A Booking that one of the two first checks of the hook refuses: its
\* email is absent or does not match the pattern, or its eventId is absent.
RefusedBeforeQuery(b) ==
    \/ ~IsString(bookings[b].email)
    \/ ~EmailMatches(bookings[b].email)
    \/ bookings[b].eventId = NoId

\* C18: Event.exists is issued only after the email check and the eventId
\* check have passed: a save of a Booking with an absent or malformed email
\* or an absent eventId fails without the query and stores nothing.
C18_QueryOnlyAfterChecks ==
    \A b \in BookingIds :
        RefusedBeforeQuery(b) =>
            /\ bookings[b].pc \in {"new", "failed"}
            /\ bookings[b].checked = "no"
            /\ \A r \in stored : r.id # b

\* C18 witness: a Booking with a malformed email, naming the saved Event,
\* and one with a good email and no eventId have both failed.
C18_Witness ==
    /\ events # {}
    /\ \E b \in BookingIds :
          /\ IsString(bookings[b].email) /\ ~EmailMatches(bookings[b].email)
          /\ EventExists(bookings[b].eventId)
          /\ bookings[b].pc = "failed"
    /\ \E b \in BookingIds :
          /\ IsString(bookings[b].email) /\ EmailMatches(bookings[b].email)
          /\ bookings[b].eventId = NoId
          /\ bookings[b].pc = "failed"

\* C19: when Event.exists itself fails, the save fails with the error the
\* query failed with, which is not the referenced-event-does-not-exist
\* error, and the Booking is not stored; that error arises only when the
\* query answered and found no Event.
C19_LookupErrorHandedOn ==
    \A b \in BookingIds :
        /\ bookings[b].checked = "threw" =>
              /\ bookings[b].pc = "failed"
              /\ bookings[b].thrown \in LookupErrors
              /\ bookings[b].error = bookings[b].thrown
              /\ bookings[b].error # "eventNotFound"
              /\ \A r \in stored : r.id # b
        /\ bookings[b].error = "eventNotFound" => bookings[b].checked = "missing"

\* C19 witness: one Booking failed with the connection error of its query,
\* another with the not-found error after its query found no Event.
C19_Witness ==
    /\ \E b \in BookingIds :
          bookings[b].checked = "threw" /\ bookings[b].error = "connectionError"
    /\ \E b \in BookingIds :
          bookings[b].checked = "missing" /\ bookings[b].error = "eventNotFound"

\* The steps of an Event save, numbered as the pipeline lists them:
\* 1 required strings, 2 agenda, 3 tags, 4 slug, 5 date, 6 time.
StepFails(d, zone, step) ==
    CASE step = 1 -> \E i \in DOMAIN requiredStringFields : IsBlank(d[requiredStringFields[i]])
      [] step = 2 -> Len(d.agenda) = 0
      [] step = 3 -> Len(d.tags) = 0
      [] step = 4 -> FALSE
      [] step = 5 -> ~Falsy(d.date) /\ NewDate(d.date, zone).nan
      [] step = 6 -> ~Falsy(d.time) /\ normalizeTime(d.time) = NullStr

\* The first step that fails on a document, 0 when none does.
FirstFailing(d, zone) ==
    LET failing == {k \in 1..6 : StepFails(d, zone, k)} IN
      IF failing = {} THEN 0 ELSE CHOOSE k \in failing : \A j \in failing : k <= j

\* The step an error is the error of: by its kind, and for the schema's
\* ValidationError by the paths it names; 0 when it names paths of several
\* steps or is an error of the storage layer.
ErrorStep(e) ==
    CASE e.kind = "required" -> 1
      [] e.kind = "agenda" -> 2
      [] e.kind = "tags" -> 3
      [] e.kind = "invalidDate" -> 5
      [] e.kind = "invalidTime" -> 6
      [] e.kind = "ValidationError" ->
            IF e.fields \subseteq Range(requiredStringFields) THEN 1
            ELSE IF e.fields = {"agenda"} THEN 2
            ELSE IF e.fields = {"tags"} THEN 3
            ELSE 0
      [] OTHER -> 0

\* No step after step k has rewritten the document.
LaterStepsDidNotRun(k, before, after) ==
    /\ k <= 4 => after.slug = before.slug
    /\ k <= 5 => after.date = before.date
    /\ k <= 6 => after.time = before.time

\* C17 as stated: a save of a document on which some step fails ends with
\* the error of the first step that fails, in the order required strings,
\* agenda, tags, slug, date, time, and no later step has run.
C17_FirstFailingStepDecides ==
    [][(SaveEvent /\ FirstFailing(doc, tz) # 0)
         => /\ saveResult'.status = "failed"
            /\ ErrorStep(saveResult'.error) = FirstFailing(doc, tz)
            /\ LaterStepsDidNotRun(FirstFailing(doc, tz), doc, doc')]_vars

\* C17 amended: the schema's validators run first, on all paths at once: if
\* any path fails them the save ends with one ValidationError naming every
\* such path, and the hook does not run. Otherwise the steps of the hook run
\* in the order required strings, agenda, tags, slug, date, time, the save
\* ends with the error of the first step that fails, and no later step runs.
C17_ValidatorsThenStepsInOrder ==
    [][(SaveEvent /\ FirstFailing(doc, tz) # 0)
         => /\ saveResult'.status = "failed"
            /\ IF SchemaInvalidPaths(doc) # {}
                 THEN /\ saveResult'.error = ValidationError(SchemaInvalidPaths(doc))
                      /\ doc' = doc
                 ELSE /\ ErrorStep(saveResult'.error) = FirstFailing(doc, tz)
                      /\ saveResult'.error.kind # "ValidationError"
                      /\ LaterStepsDidNotRun(FirstFailing(doc, tz), doc, doc')]_vars

\* C17 witness: the date and the time of a document were both bad; its save
\* failed with the error of the date, after the slug was derived and with
\* the time left as it was.
C17_Witness ==
    /\ saveResult.status = "failed"
    /\ saveResult.error = InvalidDateError
    /\ attrs.slug = Absent /\ doc.title = <<"a">> /\ doc.slug = <<"a">>
    /\ doc.date = <<"s","o","o","n">>
    /\ doc.time = <<"2","5",":","0","0">>

=============================================================================
